---- MODULE Spec2Model ----
(***************************************************************************)
(* ContextMap: a PTY wrapper (bin/wrapper.py) that records a session to a  *)
(* timestamped log, and an analyzer (bin/contextmap.py) that cleans and    *)
(* compresses the log and hands it to a summarization collaborator.        *)
(*                                                                         *)
(* Text is modelled as a sequence of Unicode code points (a Python str),   *)
(* log content as a sequence of bytes.                                     *)
(***************************************************************************)
EXTENDS Integers, Sequences, FiniteSets, TLC

VARIABLES
    \* --- text pipeline (clean_ansi, smart_compress_transcript) ---
    tstage,     \* "idle" | "raw" | "once" | "twice" | "out"
    raw,        \* the input string
    once,       \* clean_ansi(raw)
    twice,      \* clean_ansi(clean_ansi(raw))
    out,        \* smart_compress_transcript(raw)
    \* --- retention scan (cleanup_old_logs) ---
    c_stage,    \* "idle" | "before" | "done"
    c_dir,      \* the directory: NoDir, or file name -> Absent or a file
    c_before,   \* the directory as it was when the scan started
    c_now,      \* datetime.now().timestamp(), in clock ticks
    c_days,     \* the age threshold, in days
    c_count,    \* the number of files the scan reports deleted
    \* --- analyzer (contextmap.py main) ---
    a_pc,       \* "idle" | "start" | "cleaned" | "parsed" | "summarized" | "done"
    a_dir,      \* the directory of the log: NoDir, or file name -> Absent or a file
    a_start,    \* that directory as it was when the analyzer started
    a_arg,      \* the log_file argument: a file name in a_dir
    a_now,      \* the time of the run, in clock ticks
    a_transcript, \* what parse_transcript returned
    a_invoked,  \* the summarization collaborator was invoked
    a_nothing,  \* "Empty transcript. Nothing to analyze." was printed
    a_summary,  \* what generate_summary returned
    a_report,   \* the persisted report
    a_exit,     \* the exit status of the analyzer process, -1 while it runs
    \* --- wrapper sessions (wrapper.py main) in one working directory ---
    clock,      \* the wall clock, in ticks
    ticks,      \* how many times the clock was advanced
    inodes,     \* the files ever created under .context/logs: content and mtime
    logsDir,    \* .context/logs: file name -> index into inodes
    sess        \* the state of each wrapper run

textVars == <<tstage, raw, once, twice, out>>

cleanupVars == <<c_stage, c_dir, c_before, c_now, c_days, c_count>>

analyzerVars ==
    <<a_pc, a_dir, a_start, a_arg, a_now, a_transcript, a_invoked, a_nothing,
      a_summary, a_report, a_exit>>

wrapperVars == <<clock, ticks, inodes, logsDir, sess>>

vars == <<textVars, cleanupVars, analyzerVars, wrapperVars>>

(***************************************************************************)
(* Bounds of the model.                                                    *)
(***************************************************************************)
MaxLen == 4         \* longest input of the clean_ansi specification
MaxTokens == 4      \* most tokens in an input of the compressor specification
FillLen == 150      \* length of the long filler token
TicksPerSecond == 2 \* resolution of the model's clock
MaxDays == 2        \* largest age threshold of the retention specification
NSessions == 2      \* wrapper runs in the working directory
MaxOutput == 2      \* bytes a wrapped child writes
MaxTicks == 2       \* times the clock advances

(***************************************************************************)
(* Helpers on sequences.                                                   *)
(***************************************************************************)
Min(a, b) == IF a <= b THEN a ELSE b

Max(a, b) == IF a >= b THEN a ELSE b

SetMin(S) == CHOOSE k \in S : \A m \in S : k <= m

\* Index of the first element of t at or after i that is in C; Len(t)+1 if none.
FirstIn(t, i, C) ==
    LET S == {k \in i..Len(t) : t[k] \in C}
    IN  IF S = {} THEN Len(t) + 1 ELSE SetMin(S)

\* Index of the first element of t at or after i that is not in C; Len(t)+1 if none.
FirstNotIn(t, i, C) ==
    LET S == {k \in i..Len(t) : t[k] \notin C}
    IN  IF S = {} THEN Len(t) + 1 ELSE SetMin(S)

\* Index of the last element of t that is not in C; 0 if none.
LastNotIn(t, C) ==
    LET S == {k \in 1..Len(t) : t[k] \notin C}
    IN  IF S = {} THEN 0 ELSE CHOOSE k \in S : \A m \in (k + 1)..Len(t) : t[m] \in C

\* str.startswith
startswith(s, prefix) ==
    /\ Len(prefix) <= Len(s)
    /\ SubSeq(s, 1, Len(prefix)) = prefix

\* the Python operator `sub in s`
contains(s, sub) ==
    \E i \in 1..(Len(s) - Len(sub) + 1) :
        s[i] = sub[1] /\ SubSeq(s, i, i + Len(sub) - 1) = sub

\* str(n) for n >= 0: the decimal digits of n as code points
RECURSIVE str_int(_)
str_int(n) == IF n < 10 THEN <<48 + n>> ELSE str_int(n \div 10) \o <<48 + (n % 10)>>

(***************************************************************************)
(* Characters.                                                             *)
(***************************************************************************)
ESC == 27
LF == 10
CR == 13

\* [@-Z\\-_] : 0x40-0x5A and 0x5C-0x5F
EscFinalBytes == (64..90) \cup (92..95)
\* \[
CsiIntro == 91
\* [0-?]
CsiParamBytes == 48..63
\* [ -/]
CsiIntermediateBytes == 32..47
\* [@-~]
CsiFinalBytes == 64..126
\* [\x00-\x09\x0B\x0C\x0E-\x1F\x7F]
ControlChars == (0..9) \cup {11, 12} \cup (14..31) \cup {127}

\* the characters str.strip() removes: those for which str.isspace() holds
Whitespace ==
    (9..13) \cup (28..32) \cup {133, 160, 5760} \cup (8192..8202)
        \cup {8232, 8233, 8239, 8287, 12288}

(***************************************************************************)
(* clean_ansi                                                              *)
(***************************************************************************)
\* The regular expression \x1B(?:[@-Z\\-_]|\[[0-?]*[ -/]*[@-~]) tried at position
\* p of t, where t[p] = ESC: the index of the last character matched, 0 when
\* it does not match. The three classes of the second alternative are
\* pairwise disjoint, so the greedy stars cannot match after backtracking.
ansi_escape_match(t, p) ==
    IF p + 1 > Len(t) THEN 0
    ELSE IF t[p + 1] \in EscFinalBytes THEN p + 1
    ELSE IF t[p + 1] = CsiIntro THEN
        LET a == FirstNotIn(t, p + 2, CsiParamBytes)
            b == FirstNotIn(t, a, CsiIntermediateBytes)
        IN  IF b <= Len(t) /\ t[b] \in CsiFinalBytes THEN b ELSE 0
    ELSE 0

\* ansi_escape.sub('', t) from position i on: the leftmost non-overlapping
\* matches are removed, everything else is copied.
RECURSIVE ansi_escape_sub(_, _)
ansi_escape_sub(t, i) ==
    LET p == FirstIn(t, i, {ESC})
    IN  IF p > Len(t) THEN SubSeq(t, i, Len(t))
        ELSE LET e == ansi_escape_match(t, p)
             IN  IF e = 0
                 THEN SubSeq(t, i, p) \o ansi_escape_sub(t, p + 1)
                 ELSE SubSeq(t, i, p - 1) \o ansi_escape_sub(t, e + 1)

\* re.sub(r'[\x00-\x09\x0B\x0C\x0E-\x1F\x7F]', '', t)
remove_control(t) == SelectSeq(t, LAMBDA c : c \notin ControlChars)

clean_ansi_regex_only(text) == ansi_escape_sub(text, 1)

clean_ansi(text) == remove_control(ansi_escape_sub(text, 1))

(***************************************************************************)
(* smart_compress_transcript                                               *)
(***************************************************************************)
\* "> " and the glyph prompt U+276F followed by a space
PromptGt == <<62, 32>>
PromptGlyph == <<10095, 32>>
\* "--- USER STEP ---"
UserStepMarker == <<45,45,45,32,85,83,69,82,32,83,84,69,80,32,45,45,45>>
\* "Resolving...", "Fetching...", "Downloading..."
Resolving == <<82,101,115,111,108,118,105,110,103,46,46,46>>
Fetching == <<70,101,116,99,104,105,110,103,46,46,46>>
Downloading == <<68,111,119,110,108,111,97,100,105,110,103,46,46,46>>
\* " ... [" and " chars truncated] ... "
TruncOpen == <<32,46,46,46,32,91>>
TruncClose == <<32,99,104,97,114,115,32,116,114,117,110,99,97,116,101,100,93,32,46,46,46,32>>

LineThreshold == 300
HeadLen == 100
TailLen == 100
ElidedBase == 200

\* str.split('\n') from position i on
RECURSIVE split_from(_, _)
split_from(t, i) ==
    LET p == FirstIn(t, i, {LF})
    IN  IF p > Len(t) THEN <<SubSeq(t, i, Len(t))>>
        ELSE <<SubSeq(t, i, p - 1)>> \o split_from(t, p + 1)

split_lines(t) == split_from(t, 1)

\* "\n".join(entries)
RECURSIVE join_lines(_)
join_lines(entries) ==
    IF Len(entries) = 0 THEN <<>>
    ELSE IF Len(entries) = 1 THEN entries[1]
    ELSE entries[1] \o <<LF>> \o join_lines(Tail(entries))

\* str.strip()
strip(s) ==
    LET a == FirstNotIn(s, 1, Whitespace)
        b == LastNotIn(s, Whitespace)
    IN  IF a > Len(s) THEN <<>> ELSE SubSeq(s, a, b)

is_user_prompt(line_strip) ==
    startswith(line_strip, PromptGt) \/ startswith(line_strip, PromptGlyph)

\* f"\n--- USER STEP ---\n{line_strip}"
user_step_entry_no_separator(line_strip) == line_strip


user_step_entry(line_strip) == <<LF>> \o UserStepMarker \o <<LF>> \o line_strip

is_progress_line_two_markers(line) ==
    contains(line, Resolving) \/ contains(line, Fetching)

is_progress_line(line) ==
    contains(line, Resolving) \/ contains(line, Fetching) \/ contains(line, Downloading)

\* line[:100] + f" ... [{len(line)-200} chars truncated] ... " + line[-100:]
truncate_line(line) ==
    IF Len(line) > LineThreshold
    THEN SubSeq(line, 1, HeadLen)
            \o TruncOpen \o str_int(Len(line) - ElidedBase) \o TruncClose
            \o SubSeq(line, Len(line) - TailLen + 1, Len(line))
    ELSE line

\* One iteration of the loop over the lines: what it appends to `compressed`.
compress_line(line) ==
    LET line_strip == strip(line)
    IN  IF is_user_prompt(line_strip) THEN <<user_step_entry(line_strip)>>
        ELSE IF is_progress_line(line) THEN <<>>
        ELSE <<truncate_line(line)>>

RECURSIVE compress_lines(_, _)
compress_lines(lines, i) ==
    IF i > Len(lines) THEN <<>>
    ELSE compress_line(lines[i]) \o compress_lines(lines, i + 1)

smart_compress_transcript(raw_text) ==
    join_lines(compress_lines(split_lines(clean_ansi(raw_text)), 1))

(***************************************************************************)
(* Files and the retention scan (cleanup_old_logs).                        *)
(*                                                                         *)
(* A file name is a record [prefix, ts, ext]: the name is prefix, then the *)
(* timestamp ts when ts >= 0, then ext, where ext is the part of the name  *)
(* from its last "." on. Times are in clock ticks.                         *)
(***************************************************************************)
\* os.path.exists(abs_log_dir) is false
NoDir == [missing |-> "directory"]

\* no file of that name
Absent == [missing |-> "file"]

DaySeconds == 86400

\* f"session_{timestamp}.log"
LogName(timestamp) == [prefix |-> "session_", ts |-> timestamp, ext |-> ".log"]

\* f.endswith(".log")
endswith_log(f) == f.ext = ".log"

\* datetime.datetime.now().timestamp() - (days * 86400)
cutoff_time(now, days) == now - (days * DaySeconds * TicksPerSecond)

\* os.path.getmtime(path) < cutoff
is_expired_inclusive(mtime, cutoff) == mtime <= cutoff

is_expired(mtime, cutoff) == mtime < cutoff

\* The files the loop over os.listdir removes: os.remove raises OSError for a
\* file that cannot be removed, and the scan passes over it.
cleanup_targets(dir, now, days) ==
    {f \in DOMAIN dir :
        /\ dir[f] # Absent
        /\ endswith_log(f)
        /\ is_expired(dir[f].mtime, cutoff_time(now, days))
        /\ dir[f].removable}

cleanup_old_logs(dir, now, days) ==
    IF dir = NoDir THEN dir
    ELSE LET gone == cleanup_targets(dir, now, days)
         IN  [f \in DOMAIN dir |-> IF f \in gone THEN Absent ELSE dir[f]]

TextIdle ==
    /\ tstage = "idle"
    /\ raw = <<>>
    /\ once = <<>>
    /\ twice = <<>>
    /\ out = <<>>

CleanupIdle ==
    /\ c_stage = "idle"
    /\ c_dir = NoDir
    /\ c_before = NoDir
    /\ c_now = 0
    /\ c_days = 0
    /\ c_count = 0

AnalyzerIdle ==
    /\ a_pc = "idle"
    /\ a_dir = NoDir
    /\ a_start = NoDir
    /\ a_arg = LogName(0)
    /\ a_now = 0
    /\ a_transcript = <<>>
    /\ a_invoked = FALSE
    /\ a_nothing = FALSE
    /\ a_summary = "none"
    /\ a_report = "none"
    /\ a_exit = -1

WrapperIdle ==
    /\ clock = 0
    /\ ticks = 0
    /\ inodes = <<>>
    /\ logsDir = <<>>
    /\ sess = <<>>

(***************************************************************************)
(* Specification of clean_ansi: every string over AnsiAlphabet up to       *)
(* MaxLen characters is cleaned once, and the result cleaned again.        *)
(***************************************************************************)
\* ESC, '[', '1', ' ', '(' , 'm', 'M', newline, carriage return, backspace
AnsiAlphabet == {27, 91, 49, 32, 109, 77, 10, 13, 8}

RECURSIVE StringsUpTo(_, _)
StringsUpTo(A, n) ==
    IF n = 0 THEN {<<>>}
    ELSE LET S == StringsUpTo(A, n - 1)
         IN  S \cup {Append(s, c) : s \in {x \in S : Len(x) = n - 1}, c \in A}

AnsiInit ==
    /\ tstage = "raw"
    /\ raw \in StringsUpTo(AnsiAlphabet, MaxLen)
    /\ once = <<>>
    /\ twice = <<>>
    /\ out = <<>>
    /\ CleanupIdle
    /\ AnalyzerIdle
    /\ WrapperIdle

CleanOnce ==
    /\ tstage = "raw"
    /\ once' = clean_ansi(raw)
    /\ tstage' = "once"
    /\ UNCHANGED <<raw, twice, out>>
    /\ UNCHANGED <<cleanupVars, analyzerVars, wrapperVars>>

CleanTwice ==
    /\ tstage = "once"
    /\ twice' = clean_ansi(once)
    /\ tstage' = "twice"
    /\ UNCHANGED <<raw, once, out>>
    /\ UNCHANGED <<cleanupVars, analyzerVars, wrapperVars>>

AnsiNext == CleanOnce \/ CleanTwice

SpecAnsi == AnsiInit /\ [][AnsiNext]_vars

(***************************************************************************)
(* Specification of the compressor: the input is a concatenation of up to  *)
(* MaxTokens tokens.                                                       *)
(***************************************************************************)
Filler == [k \in 1..FillLen |-> 97]

\* "> ", glyph prompt, space, newline, "x", the three progress markers, a long
\* run of "a", and the colour reset ESC [ 0 m
Tokens ==
    { PromptGt, PromptGlyph, <<32>>, <<LF>>, <<120>>,
      Resolving, Fetching, Downloading, Filler, <<ESC, 91, 48, 109>> }

RECURSIVE TokenStrings(_)
TokenStrings(n) ==
    IF n = 0 THEN {<<>>}
    ELSE {s \o tok : s \in TokenStrings(n - 1), tok \in Tokens \cup {<<>>}}

TextInit ==
    /\ tstage = "raw"
    /\ raw \in TokenStrings(MaxTokens)
    /\ once = <<>>
    /\ twice = <<>>
    /\ out = <<>>
    /\ CleanupIdle
    /\ AnalyzerIdle
    /\ WrapperIdle

Clean ==
    /\ tstage = "raw"
    /\ once' = clean_ansi(raw)
    /\ tstage' = "once"
    /\ UNCHANGED <<raw, twice, out>>
    /\ UNCHANGED <<cleanupVars, analyzerVars, wrapperVars>>

Compress ==
    /\ tstage = "once"
    /\ out' = smart_compress_transcript(raw)
    /\ tstage' = "out"
    /\ UNCHANGED <<raw, once, twice>>
    /\ UNCHANGED <<cleanupVars, analyzerVars, wrapperVars>>

TextNext == Clean \/ Compress

SpecText == TextInit /\ [][TextNext]_vars

(***************************************************************************)
(* Specification of the retention scan: a directory of up to four files    *)
(* of different names, ages and permissions (or no directory) is scanned   *)
(* once with a threshold of 1..MaxDays days.                               *)
(***************************************************************************)
CleanupNames ==
    { LogName(20240101),
      [prefix |-> "notes", ts |-> -1, ext |-> ".log"],
      [prefix |-> "session_", ts |-> 20240101, ext |-> ".txt"],
      [prefix |-> "session_20240101.log", ts |-> -1, ext |-> ".bak"] }

CleanupNow == (MaxDays + 1) * DaySeconds * TicksPerSecond

\* one tick older than each threshold, exactly as old as it, and brand new
CleanupMTimes ==
    {cutoff_time(CleanupNow, d) - 1 : d \in 1..MaxDays}
        \cup {cutoff_time(CleanupNow, d) : d \in 1..MaxDays}
        \cup {CleanupNow}

CleanupFiles == [mtime : CleanupMTimes, removable : BOOLEAN]

CleanupInit ==
    /\ c_stage = "before"
    /\ c_dir \in {NoDir} \cup [CleanupNames -> {Absent} \cup CleanupFiles]
    /\ c_before = c_dir
    /\ c_now = CleanupNow
    /\ c_days \in 1..MaxDays
    /\ c_count = 0
    /\ TextIdle
    /\ AnalyzerIdle
    /\ WrapperIdle

Cleanup ==
    /\ c_stage = "before"
    /\ c_dir' = cleanup_old_logs(c_dir, c_now, c_days)
    /\ c_count' = IF c_dir = NoDir THEN 0
                  ELSE Cardinality(cleanup_targets(c_dir, c_now, c_days))
    /\ c_stage' = "done"
    /\ UNCHANGED <<c_before, c_now, c_days>>
    /\ UNCHANGED <<textVars, analyzerVars, wrapperVars>>

CleanupNext == Cleanup

SpecCleanup == CleanupInit /\ [][CleanupNext]_vars

(***************************************************************************)
(* The analyzer: parse_transcript and main of contextmap.py.               *)
(***************************************************************************)
\* "[Error reading log: " and "]"
ErrorReadingOpen == <<91,69,114,114,111,114,32,114,101,97,100,105,110,103,32,108,111,103,58,32>>
ErrorReadingClose == <<93>>
\* str(e), the text of the exception: "E" stands for it
ExceptionText == <<69>>

DefaultDays == 2

\* Decoding with errors='replace': a byte that is not valid UTF-8 becomes
\* U+FFFD. The logs of the model hold ASCII bytes and the byte 0xFF only.
decode_replace(bytes) == [k \in 1..Len(bytes) |-> IF bytes[k] < 128 THEN bytes[k] ELSE 65533]

\* Reading in text mode with the default newline=None: "\r\n" and "\r" are
\* both read as "\n".
universal_newlines(t) ==
    LET indexed == [k \in 1..Len(t) |-> <<k, t[k]>>]
        kept == SelectSeq(indexed,
                    LAMBDA p : ~(p[2] = LF /\ p[1] > 1 /\ t[p[1] - 1] = CR))
    IN  [k \in 1..Len(kept) |-> IF kept[k][2] = CR THEN LF ELSE kept[k][2]]

\* f.read() on open(log_path, 'r', errors='replace')
read_text(bytes) == universal_newlines(decode_replace(bytes))

parse_transcript(dir, log_path) ==
    IF dir = NoDir \/ dir[log_path] = Absent THEN <<>>
    ELSE IF ~dir[log_path].readable
         THEN ErrorReadingOpen \o ExceptionText \o ErrorReadingClose
         ELSE smart_compress_transcript(read_text(dir[log_path].content))

\* The exit status of the Python process: main()'s return value is dropped by
\* the module-level call, so the status is 0 unless an exception escapes.
analyzer_exit_status(escaped) == IF escaped THEN 1 ELSE 0

\* step 0 of main: cleanup_old_logs on the directory of the log, if it exists
AHousekeeping ==
    /\ a_pc = "start"
    /\ a_dir' = IF a_dir # NoDir THEN cleanup_old_logs(a_dir, a_now, DefaultDays) ELSE a_dir
    /\ a_pc' = "cleaned"
    /\ UNCHANGED <<a_start, a_arg, a_now, a_transcript, a_invoked, a_nothing,
                   a_summary, a_report, a_exit>>
    /\ UNCHANGED <<textVars, cleanupVars, wrapperVars>>

\* transcript = parse_transcript(args.log_file)
AParse ==
    /\ a_pc = "cleaned"
    /\ a_transcript' = parse_transcript(a_dir, a_arg)
    /\ a_pc' = "parsed"
    /\ UNCHANGED <<a_dir, a_start, a_arg, a_now, a_invoked, a_nothing,
                   a_summary, a_report, a_exit>>
    /\ UNCHANGED <<textVars, cleanupVars, wrapperVars>>

\* if not transcript.strip(): print the warning and return
ANothingToAnalyze ==
    /\ a_pc = "parsed"
    /\ strip(a_transcript) = <<>>
    /\ a_nothing' = TRUE
    /\ a_exit' = analyzer_exit_status(FALSE)
    /\ a_pc' = "done"
    /\ UNCHANGED <<a_dir, a_start, a_arg, a_now, a_transcript, a_invoked,
                   a_summary, a_report>>
    /\ UNCHANGED <<textVars, cleanupVars, wrapperVars>>

\* summary = generate_summary(transcript, ...): the collaborator is run and
\* its output returned, or an error marker when it exits non-zero or cannot
\* be run
ASummarize ==
    /\ a_pc = "parsed"
    /\ strip(a_transcript) # <<>>
    /\ a_invoked' = TRUE
    /\ a_summary' \in {"report", "cli error marker", "execution error marker"}
    /\ a_pc' = "summarized"
    /\ UNCHANGED <<a_dir, a_start, a_arg, a_now, a_transcript, a_nothing,
                   a_report, a_exit>>
    /\ UNCHANGED <<textVars, cleanupVars, wrapperVars>>

\* os.makedirs and the write of the report succeed
ASave ==
    /\ a_pc = "summarized"
    /\ a_report' = a_summary
    /\ a_exit' = analyzer_exit_status(FALSE)
    /\ a_pc' = "done"
    /\ UNCHANGED <<a_dir, a_start, a_arg, a_now, a_transcript, a_invoked,
                   a_nothing, a_summary>>
    /\ UNCHANGED <<textVars, cleanupVars, wrapperVars>>

\* os.makedirs or open(args.out, 'w') raises: nothing catches it
ASaveFails ==
    /\ a_pc = "summarized"
    /\ a_exit' = analyzer_exit_status(TRUE)
    /\ a_pc' = "done"
    /\ UNCHANGED <<a_dir, a_start, a_arg, a_now, a_transcript, a_invoked,
                   a_nothing, a_summary, a_report>>
    /\ UNCHANGED <<textVars, cleanupVars, wrapperVars>>

(***************************************************************************)
(* The wrapper: main of wrapper.py. Each run names its log after the       *)
(* second it starts in, opens it for writing, spawns the child on a PTY,   *)
(* copies what the child writes to the log and to the terminal, and runs   *)
(* the analyzer when the child is gone.                                    *)
(***************************************************************************)
Sessions == 1..NSessions

\* the bytes a child writes
OutputBytes == {97, 98}

\* the exit statuses of a child
ExitStatuses == {0, 3}

\* os.read(fd, 1024)
ReadSize == 1024

\* the diagnostic "Error spawning Claude: ..." as the forked process prints it
\* to its terminal: "!" stands for it
SpawnDiagnostic == <<33>>

\* datetime.datetime.now().strftime("%Y%m%d_%H%M%S"): the time to the second
timestamp(now) == now \div TicksPerSecond

\* The exit status of the wrapper process: `main()` is called at module level
\* and what it returns (None, or 1 after an OSError) is dropped.
wrapper_exit_status(returned) == 0

\* a write of data at offset pos of a file opened without O_APPEND: a gap
\* between the end of the file and pos reads as zero bytes
write_at(content, pos, data) ==
    LET n == Max(Len(content), pos + Len(data))
    IN  [k \in 1..n |->
            IF k > pos /\ k <= pos + Len(data) THEN data[k - pos]
            ELSE IF k <= Len(content) THEN content[k]
            ELSE 0]

NewSession ==
    [ pc |-> "init",         \* init, opened, relay, display, post, analyzed, done
      ts |-> -1,             \* the timestamp in the name of the log
      ino |-> 0,             \* the file log_f is open on (index into inodes)
      pos |-> 0,             \* the offset of log_f
      logOpen |-> FALSE,     \* log_f is open
      child |-> "none",      \* none, running, exited
      status |-> -1,         \* the exit status of the child
      produced |-> <<>>,     \* what the child wrote to its terminal
      ptybuf |-> <<>>,       \* what the master side has not read yet
      data |-> <<>>,         \* the chunk master_read returned, not yet displayed
      shown |-> <<>>,        \* what was written to the real terminal
      spawnFailed |-> FALSE, \* the PTY or the command could not be started
      diag |-> FALSE,        \* the diagnostic reached the user
      exit |-> -1 ]          \* the exit status of the wrapper, -1 while it runs

\* .context/logs as cleanup_old_logs sees it
logs_listing ==
    [f \in DOMAIN logsDir |-> [mtime |-> inodes[logsDir[f]].mtime, removable |-> TRUE]]

\* log_f = open(log_file, 'wb'): creates the file, or truncates the one of that
\* name; with os.makedirs and the pre-flight message before it
OpenLog(s) ==
    /\ sess[s].pc = "init"
    /\ LET name == LogName(timestamp(clock))
           fresh == [content |-> <<>>, mtime |-> clock]
       IN  IF name \in DOMAIN logsDir
           THEN /\ inodes' = [inodes EXCEPT ![logsDir[name]] = fresh]
                /\ logsDir' = logsDir
                /\ sess' = [sess EXCEPT ![s] =
                              [@ EXCEPT !.pc = "opened", !.ts = timestamp(clock),
                                        !.ino = logsDir[name], !.pos = 0, !.logOpen = TRUE]]
           ELSE /\ inodes' = Append(inodes, fresh)
                /\ logsDir' = [f \in DOMAIN logsDir \cup {name} |->
                                  IF f = name THEN Len(inodes) + 1 ELSE logsDir[f]]
                /\ sess' = [sess EXCEPT ![s] =
                              [@ EXCEPT !.pc = "opened", !.ts = timestamp(clock),
                                        !.ino = Len(inodes) + 1, !.pos = 0, !.logOpen = TRUE]]
    /\ UNCHANGED <<clock, ticks>>
    /\ UNCHANGED <<textVars, cleanupVars, analyzerVars>>

\* pty.spawn forks the child on a new PTY
Spawn(s) ==
    /\ sess[s].pc = "opened"
    /\ sess' = [sess EXCEPT ![s] = [@ EXCEPT !.pc = "relay", !.child = "running"]]
    /\ UNCHANGED <<clock, ticks, inodes, logsDir>>
    /\ UNCHANGED <<textVars, cleanupVars, analyzerVars>>

\* pty.spawn raises OSError (no PTY, no process): the handler prints the
\* diagnostic and returns 1, the finally clause closes log_f, the process ends
SpawnError(s) ==
    /\ sess[s].pc = "opened"
    /\ sess' = [sess EXCEPT ![s] =
                  [@ EXCEPT !.pc = "done", !.spawnFailed = TRUE, !.diag = TRUE,
                            !.logOpen = FALSE, !.exit = wrapper_exit_status(1)]]
    /\ UNCHANGED <<clock, ticks, inodes, logsDir>>
    /\ UNCHANGED <<textVars, cleanupVars, analyzerVars>>

\* os.execlp fails in the forked process (command not found, not executable):
\* that process is a copy of the wrapper, so its handler prints the diagnostic
\* to the PTY and returns 1, and it ends like the wrapper does
ExecError(s) ==
    /\ sess[s].pc = "relay"
    /\ sess[s].child = "running"
    /\ sess[s].produced = <<>>
    /\ sess' = [sess EXCEPT ![s] =
                  [@ EXCEPT !.spawnFailed = TRUE, !.child = "exited",
                            !.produced = SpawnDiagnostic, !.ptybuf = SpawnDiagnostic,
                            !.status = wrapper_exit_status(1)]]
    /\ UNCHANGED <<clock, ticks, inodes, logsDir>>
    /\ UNCHANGED <<textVars, cleanupVars, analyzerVars>>

\* the child writes a byte to its terminal
ChildWrite(s, b) ==
    /\ sess[s].child = "running"
    /\ Len(sess[s].produced) < MaxOutput
    /\ sess' = [sess EXCEPT ![s] =
                  [@ EXCEPT !.produced = Append(@, b), !.ptybuf = Append(@, b)]]
    /\ UNCHANGED <<clock, ticks, inodes, logsDir>>
    /\ UNCHANGED <<textVars, cleanupVars, analyzerVars>>

\* the child exits
ChildExit(s, code) ==
    /\ sess[s].child = "running"
    /\ sess' = [sess EXCEPT ![s] = [@ EXCEPT !.child = "exited", !.status = code]]
    /\ UNCHANGED <<clock, ticks, inodes, logsDir>>
    /\ UNCHANGED <<textVars, cleanupVars, analyzerVars>>

\* master_read: data = os.read(fd, 1024); log_f.write(data); log_f.flush();
\* return data
MasterRead(s) ==
    /\ sess[s].pc = "relay"
    /\ sess[s].ptybuf # <<>>
    /\ LET buf == sess[s].ptybuf
           n == Min(Len(buf), ReadSize)
           chunk == SubSeq(buf, 1, n)
           file == inodes[sess[s].ino]
       IN  /\ inodes' = [inodes EXCEPT ![sess[s].ino] =
                            [content |-> write_at(file.content, sess[s].pos, chunk),
                             mtime |-> clock]]
           /\ sess' = [sess EXCEPT ![s] =
                         [@ EXCEPT !.pc = "display", !.data = chunk,
                                   !.pos = @ + n,
                                   !.ptybuf = SubSeq(buf, n + 1, Len(buf))]]
    /\ UNCHANGED <<clock, ticks, logsDir>>
    /\ UNCHANGED <<textVars, cleanupVars, analyzerVars>>

\* pty._copy writes what master_read returned to the real terminal
Display(s) ==
    /\ sess[s].pc = "display"
    /\ sess' = [sess EXCEPT ![s] =
                  [@ EXCEPT !.pc = "relay", !.shown = @ \o sess[s].data, !.data = <<>>,
                            !.diag = @ \/ sess[s].spawnFailed]]
    /\ UNCHANGED <<clock, ticks, inodes, logsDir>>
    /\ UNCHANGED <<textVars, cleanupVars, analyzerVars>>

\* the child is gone and the PTY is drained: master_read gets end of file,
\* pty.spawn returns the child's status (which main drops), and the finally
\* clause closes log_f
SpawnReturns(s) ==
    /\ sess[s].pc = "relay"
    /\ sess[s].child = "exited"
    /\ sess[s].ptybuf = <<>>
    /\ sess' = [sess EXCEPT ![s] = [@ EXCEPT !.pc = "post", !.logOpen = FALSE]]
    /\ UNCHANGED <<clock, ticks, inodes, logsDir>>
    /\ UNCHANGED <<textVars, cleanupVars, analyzerVars>>

\* subprocess.run of the analyzer on the log: its retention scan removes the
\* expired logs of .context/logs; reading the log changes nothing
Analyze(s) ==
    /\ sess[s].pc = "post"
    /\ LET gone == cleanup_targets(logs_listing, clock, DefaultDays)
       IN  logsDir' = [f \in DOMAIN logsDir \ gone |-> logsDir[f]]
    /\ sess' = [sess EXCEPT ![s] = [@ EXCEPT !.pc = "analyzed"]]
    /\ UNCHANGED <<clock, ticks, inodes>>
    /\ UNCHANGED <<textVars, cleanupVars, analyzerVars>>

\* main returns None and the process ends
WrapperExit(s) ==
    /\ sess[s].pc = "analyzed"
    /\ sess' = [sess EXCEPT ![s] =
                  [@ EXCEPT !.pc = "done", !.exit = wrapper_exit_status(0)]]
    /\ UNCHANGED <<clock, ticks, inodes, logsDir>>
    /\ UNCHANGED <<textVars, cleanupVars, analyzerVars>>

\* time passes: a tick, or more than the retention threshold
Tick(d) ==
    /\ ticks < MaxTicks
    /\ clock' = clock + d
    /\ ticks' = ticks + 1
    /\ UNCHANGED <<inodes, logsDir, sess>>
    /\ UNCHANGED <<textVars, cleanupVars, analyzerVars>>

Init ==
    /\ clock = 0
    /\ ticks = 0
    /\ inodes = <<>>
    /\ logsDir = <<>>
    /\ sess = [s \in Sessions |-> NewSession]
    /\ TextIdle
    /\ CleanupIdle
    /\ AnalyzerIdle

Next ==
    \/ \E s \in Sessions :
          \/ OpenLog(s)
          \/ Spawn(s)
          \/ SpawnError(s)
          \/ ExecError(s)
          \/ \E b \in OutputBytes : ChildWrite(s, b)
          \/ \E code \in ExitStatuses : ChildExit(s, code)
          \/ MasterRead(s)
          \/ Display(s)
          \/ SpawnReturns(s)
          \/ Analyze(s)
          \/ WrapperExit(s)
    \/ \E d \in {1, DefaultDays * DaySeconds * TicksPerSecond + 1} : Tick(d)

Spec == Init /\ [][Next]_vars

(***************************************************************************)
(* Specification of the analyzer: it is run on a file name of a directory  *)
(* that holds up to two files (or does not exist).                         *)
(***************************************************************************)
AnalyzerNames == {LogName(20240101), [prefix |-> "capture", ts |-> -1, ext |-> ".txt"]}

AnalyzerNow == (DefaultDays + 1) * DaySeconds * TicksPerSecond

\* older than the retention threshold, and one hour old
AnalyzerMTimes == {0, AnalyzerNow - 3600 * TicksPerSecond}

\* empty; "\n"; " \r\n"; "\r"; ESC [ 0 m; "Fetching..."; "x"; "> x"; the byte 0xFF
LogContents ==
    { <<>>, <<10>>, <<32, 13, 10>>, <<13>>, <<27, 91, 48, 109>>, Fetching,
      <<120>>, <<62, 32, 120>>, <<255>> }

AnalyzerFiles ==
    [mtime : AnalyzerMTimes, removable : BOOLEAN, readable : BOOLEAN, content : LogContents]

AnalyzerInit ==
    /\ a_pc = "start"
    /\ a_dir \in {NoDir} \cup [AnalyzerNames -> {Absent} \cup AnalyzerFiles]
    /\ a_start = a_dir
    /\ a_arg \in AnalyzerNames
    /\ a_now = AnalyzerNow
    /\ a_transcript = <<>>
    /\ a_invoked = FALSE
    /\ a_nothing = FALSE
    /\ a_summary = "none"
    /\ a_report = "none"
    /\ a_exit = -1
    /\ TextIdle
    /\ CleanupIdle
    /\ WrapperIdle

AnalyzerNext ==
    \/ AHousekeeping
    \/ AParse
    \/ ANothingToAnalyze
    \/ ASummarize
    \/ ASave
    \/ ASaveFails

SpecAnalyzer == AnalyzerInit /\ [][AnalyzerNext]_vars

(***************************************************************************)
(* Properties of clean_ansi.                                               *)
(***************************************************************************)
\* C0 control characters
C0Controls == 0..31

\* C10 (as amended): clean_ansi is idempotent, and the output of one pass holds
\* no ESC and no C0 control character other than newline and carriage return
\* (0x0D is not in the class the second substitution removes).
C10_IdempotentKeepsCR ==
    /\ tstage \in {"once", "twice"} =>
          \A k \in 1..Len(once) : once[k] \in C0Controls => once[k] \in {LF, CR}
    /\ tstage = "twice" => twice = once

\* C10: a second pass has run on a string from which the first pass removed
\* something and in which it left a carriage return.
C10_Witness ==
    /\ tstage = "twice"
    /\ Len(once) < Len(raw)
    /\ \E k \in 1..Len(once) : once[k] = CR

\* C10 as stated: idempotent, and no C0 control character other than newline
\* is left by one pass.
C10_Original ==
    /\ tstage \in {"once", "twice"} =>
          \A k \in 1..Len(once) : once[k] \in C0Controls => once[k] = LF
    /\ tstage = "twice" => twice = once

\* The escape-sequence grammar as the specification words it. An intermediate
\* byte is 0x20-0x2F and a final byte 0x30-0x7E; "[" after ESC introduces a
\* control sequence and is not counted as a sequence of its own.
IntermediateOrFinalBytes == (32..126) \ {CsiIntro}

\* The index of the last character of the sequence of that grammar that
\* starts at position p of t, where t[p] = ESC; 0 when none starts there.
\* A control sequence is taken as the regular expression takes it: parameter
\* bytes, then intermediate bytes, then a final byte of 0x40-0x7E.
StatedSequenceEnd(t, p) ==
    IF p + 1 > Len(t) THEN 0
    ELSE IF t[p + 1] \in IntermediateOrFinalBytes THEN p + 1
    ELSE IF t[p + 1] = CsiIntro THEN
        LET a == FirstNotIn(t, p + 2, CsiParamBytes)
            b == FirstNotIn(t, a, CsiIntermediateBytes)
        IN  IF b <= Len(t) /\ t[b] \in CsiFinalBytes THEN b ELSE 0
    ELSE 0

\* t from position i on is a concatenation of newlines and sequences of the
\* stated grammar
RECURSIVE OnlyNewlinesAndSequences(_, _)
OnlyNewlinesAndSequences(t, i) ==
    IF i > Len(t) THEN TRUE
    ELSE IF t[i] = LF THEN OnlyNewlinesAndSequences(t, i + 1)
    ELSE IF t[i] = ESC
         THEN LET e == StatedSequenceEnd(t, i)
              IN  e # 0 /\ OnlyNewlinesAndSequences(t, e + 1)
         ELSE FALSE

Newlines(t) == SelectSeq(t, LAMBDA c : c = LF)

\* C11 as stated: for an input made of newlines and escape sequences of the
\* stated grammar only, clean_ansi returns the input's newlines and nothing
\* else.
C11_OnlyNewlinesRemain ==
    (tstage \in {"once", "twice"} /\ OnlyNewlinesAndSequences(raw, 1)) =>
        once = Newlines(raw)

(***************************************************************************)
(* Properties of smart_compress_transcript, stated on the lines of the     *)
(* cleaned input and the lines of the output.                              *)
(***************************************************************************)
CleanLines == split_lines(once)

OutLines == split_lines(out)

\* the line's trimmed content begins with "> " or with the glyph prompt
BeginsWithPromptMarker(l) ==
    LET s == strip(l)
    IN  \/ Len(s) >= 2 /\ s[1] = 62 /\ s[2] = 32
        \/ Len(s) >= 2 /\ s[1] = 10095 /\ s[2] = 32

\* the line contains "Resolving...", "Fetching..." or "Downloading..."
HasProgressMarker(l) ==
    \E m \in {Resolving, Fetching, Downloading} :
        \E i \in 1..(Len(l) - Len(m) + 1) :
            l[i] = m[1] /\ [k \in 1..Len(m) |-> l[i + k - 1]] = m

\* first 100 characters + " ... [N chars truncated] ... " + last 100 characters
TruncatedForm(l) ==
    [k \in 1..100 |-> l[k]]
        \o TruncOpen \o str_int(Len(l) - 200) \o TruncClose
        \o [k \in 1..100 |-> l[Len(l) - 100 + k]]

\* the lines of the cleaned input that are not dropped
KeptLines(L) == {i \in 1..Len(L) : BeginsWithPromptMarker(L[i]) \/ ~HasProgressMarker(L[i])}

PromptLines(L) == {i \in 1..Len(L) : BeginsWithPromptMarker(L[i])}

\* the output line that holds input line i: every kept line up to i takes one
\* output line, and every prompt line up to i two more for its separator
OutPos(K, P, i) ==
    Cardinality({j \in K : j <= i}) + 2 * Cardinality({j \in P : j <= i})

\* how a kept line appears in the output
OutImage(l) ==
    IF BeginsWithPromptMarker(l) THEN strip(l)
    ELSE IF Len(l) > 300 THEN TruncatedForm(l)
    ELSE l

\* C7 as stated: every output line is at most 300 characters long or is the
\* truncated form of an input line longer than 300 characters.
C7_LineLengthBounded ==
    tstage = "out" =>
        LET L == CleanLines
            O == OutLines
        IN  \A j \in 1..Len(O) :
                \/ Len(O[j]) <= 300
                \/ \E i \in 1..Len(L) :
                      /\ Len(L[i]) > 300
                      /\ O[j] = TruncatedForm(L[i])

\* C8 (as amended): every line that contains a progress marker is dropped
\* unless its trimmed content begins with a prompt marker, so only prompt
\* lines of the output can contain one; every other line appears in the
\* output, in the original order (a prompt line trimmed, after its
\* separator; a line longer than 300 characters in its truncated form).
C8_DropsProgressLinesExceptPrompts ==
    tstage = "out" =>
        LET L == CleanLines
            O == OutLines
            K == KeptLines(L)
            P == PromptLines(L)
            total == Cardinality(K) + 2 * Cardinality(P)
        IN  /\ Len(O) = Max(1, total)
            /\ \A i \in K : O[OutPos(K, P, i)] = OutImage(L[i])
            /\ \A j \in 1..Len(O) :
                  HasProgressMarker(O[j]) =>
                      \E i \in P : j = OutPos(K, P, i)

\* C8: a line with a progress marker was dropped, and a later prompt line
\* with a progress marker was kept.
C8_Witness ==
    /\ tstage = "out"
    /\ LET L == CleanLines
           O == OutLines
           K == KeptLines(L)
           P == PromptLines(L)
       IN  \E i, j \in 1..Len(L) :
              /\ i < j
              /\ HasProgressMarker(L[i]) /\ ~BeginsWithPromptMarker(L[i])
              /\ HasProgressMarker(L[j]) /\ BeginsWithPromptMarker(L[j])
              /\ O[OutPos(K, P, j)] = strip(L[j])

\* C8 as stated: no output line contains a progress marker, and the lines
\* without one appear in the output in their original order.
C8_Original ==
    tstage = "out" =>
        LET L == CleanLines
            O == OutLines
            K == KeptLines(L)
            P == PromptLines(L)
            others == {i \in 1..Len(L) : ~HasProgressMarker(L[i])}
            pos(i) == Cardinality({j \in others : j <= i})
                          + 2 * Cardinality({j \in others \cap P : j <= i})
        IN  /\ \A j \in 1..Len(O) : ~HasProgressMarker(O[j])
            /\ \A i \in others : pos(i) <= Len(O) /\ O[pos(i)] = OutImage(L[i])

\* C9 (as amended): a line whose trimmed content begins with a prompt marker
\* is preceded in the output by a blank line and the line "--- USER STEP ---",
\* and what follows the separator is the line's trimmed content (leading and
\* trailing whitespace removed).
C9_SeparatorThenTrimmedLine ==
    tstage = "out" =>
        LET L == CleanLines
            O == OutLines
            K == KeptLines(L)
            P == PromptLines(L)
        IN  \A i \in P :
                LET p == OutPos(K, P, i)
                IN  /\ 3 <= p /\ p <= Len(O)
                    /\ O[p - 2] = <<>>
                    /\ O[p - 1] = UserStepMarker
                    /\ O[p] = strip(L[i])

\* C9: a prompt line with whitespace around it was compressed.
C9_Witness ==
    /\ tstage = "out"
    /\ LET L == CleanLines
       IN  \E i \in PromptLines(L) : strip(L[i]) # L[i]

\* C9 as stated: after the separator the line appears character for
\* character as it was in the cleaned input.
C9_Original ==
    tstage = "out" =>
        LET L == CleanLines
            O == OutLines
            K == KeptLines(L)
            P == PromptLines(L)
        IN  \A i \in P :
                LET p == OutPos(K, P, i)
                IN  /\ 3 <= p /\ p <= Len(O)
                    /\ O[p - 2] = <<>>
                    /\ O[p - 1] = UserStepMarker
                    /\ O[p] = L[i]

(***************************************************************************)
(* Properties of the retention scan.                                       *)
(***************************************************************************)
\* the log naming convention session_<timestamp>.log
MatchesLogConvention(f) == f.prefix = "session_" /\ f.ts >= 0 /\ f.ext = ".log"

OlderThanThreshold(file) == file.mtime < c_now - c_days * 86400 * TicksPerSecond

\* C6 (as amended): after the scan a file of the directory has been deleted if
\* and only if its name ends with ".log" (whatever comes before), its
\* last-modified time is older than now minus the threshold, and removing it
\* did not fail; every other file is left as it was, and a missing directory
\* is a no-op.
C6_DeletesExpiredDotLogFiles ==
    c_stage = "done" =>
        IF c_before = NoDir THEN c_dir = NoDir
        ELSE \A f \in DOMAIN c_before :
                /\ c_before[f] = Absent => c_dir[f] = Absent
                /\ c_before[f] # Absent =>
                      /\ c_dir[f] = Absent <=>
                            /\ f.ext = ".log"
                            /\ OlderThanThreshold(c_before[f])
                            /\ c_before[f].removable
                      /\ c_dir[f] # Absent => c_dir[f] = c_before[f]

\* C6: a scan deleted an old .log file that is not named session_<timestamp>.log
\* and left a new log, a file exactly as old as the threshold and an old file
\* of another extension.
C6_Witness ==
    /\ c_stage = "done"
    /\ c_before # NoDir
    /\ \E f, g, h \in DOMAIN c_before :
          /\ c_before[f] # Absent /\ c_dir[f] = Absent /\ ~MatchesLogConvention(f)
          /\ c_before[g] # Absent /\ c_dir[g] # Absent /\ MatchesLogConvention(g)
          /\ c_before[g].mtime = c_now - c_days * 86400 * TicksPerSecond
          /\ c_before[h] # Absent /\ c_dir[h] # Absent /\ h.ext # ".log"
          /\ OlderThanThreshold(c_before[h])

\* C6 as stated, for the files whose removal cannot fail: deleted if and only
\* if the name matches session_<timestamp>.log and the file is older than the
\* threshold; every other file untouched.
C6_Original ==
    c_stage = "done" =>
        IF c_before = NoDir THEN c_dir = NoDir
        ELSE \A f \in DOMAIN c_before :
                (c_before[f] # Absent /\ c_before[f].removable) =>
                      /\ c_dir[f] = Absent <=>
                            /\ MatchesLogConvention(f)
                            /\ OlderThanThreshold(c_before[f])
                      /\ c_dir[f] # Absent => c_dir[f] = c_before[f]

(***************************************************************************)
(* Properties of the analyzer.                                             *)
(***************************************************************************)
\* the log, when parse_transcript looks for it, is missing, cannot be read,
\* is empty, or leaves nothing but whitespace once cleaned and compressed
NothingToRead ==
    \/ a_dir = NoDir
    \/ a_dir[a_arg] = Absent
    \/ ~a_dir[a_arg].readable
    \/ a_dir[a_arg].content = <<>>
    \/ \A k \in 1..Len(a_transcript) : a_transcript[k] \in Whitespace

\* C5 as stated: with a log that is empty, whitespace only after compression,
\* missing or unreadable, the analyzer ends without having invoked the
\* collaborator, having reported that there is nothing to analyze, with exit
\* status 0.
C5_NothingToAnalyze ==
    (a_pc = "done" /\ NothingToRead) =>
        /\ ~a_invoked
        /\ a_nothing
        /\ a_exit = 0

\* the log given to the analyzer was there, and not empty, when it started
GivenLogPresent ==
    /\ a_start # NoDir
    /\ a_start[a_arg] # Absent
    /\ a_start[a_arg].content # <<>>

\* C12 as stated: the retention scan of an analyzer run does not delete the
\* log given to that run. A log that was there and not empty at the start is
\* still there, as it was, once housekeeping is over, and the transcript the
\* run works on is the transcript of that log.
C12_GivenLogSurvivesHousekeeping ==
    GivenLogPresent =>
        /\ a_pc \in {"cleaned", "parsed", "summarized", "done"} =>
              a_dir[a_arg] = a_start[a_arg]
        /\ a_pc \in {"parsed", "summarized", "done"} =>
              a_transcript = parse_transcript(a_start, a_arg)

(***************************************************************************)
(* Properties of the wrapper.                                              *)
(***************************************************************************)
IsPrefix(a, b) == Len(a) <= Len(b) /\ SubSeq(b, 1, Len(a)) = a

\* the run's child was spawned and is gone, and pty.spawn has returned
SessionEnded(s) ==
    /\ sess[s].pc \in {"post", "analyzed", "done"}
    /\ sess[s].child = "exited"

\* C1 as stated: a wrapper run whose child was spawned ends with the exit
\* status of the child.
C1_ExitCodeIsChildExitCode ==
    \A s \in Sessions :
        (sess[s].pc = "done" /\ sess[s].child = "exited") =>
            sess[s].exit = sess[s].status

\* C2 as stated: a run whose PTY or command could not be started has printed a
\* diagnostic, ends with a non-zero exit status, and has closed its log.
C2_SpawnFailureExitsNonZero ==
    \A s \in Sessions :
        (sess[s].pc = "done" /\ sess[s].spawnFailed) =>
            /\ sess[s].diag
            /\ ~sess[s].logOpen
            /\ sess[s].exit # 0

\* C3 as stated: once a session has ended, no step of the system changes the
\* content of its log file (removing the file from the directory is not a
\* change of content).
C3_LogNeverMutatedAfterExit ==
    [][\A s \in Sessions :
          SessionEnded(s) =>
              inodes'[sess[s].ino].content = inodes[sess[s].ino].content]_vars

\* C4 as stated: while a session relays, what it has written to the real
\* terminal is a prefix of its log, and when the session ends its log is
\* exactly what the child produced.
C4_LogMirrorsChildOutput ==
    /\ [](\A s \in Sessions :
            sess[s].pc \in {"relay", "display"} =>
                IsPrefix(sess[s].shown, inodes[sess[s].ino].content))
    /\ [][\A s \in Sessions :
            (sess[s].pc = "relay" /\ sess'[s].pc = "post") =>
                inodes'[sess[s].ino].content = sess'[s].produced]_vars

====
